---- MODULE Spec2Model ----
(***************************************************************************)
(* A model of python3/pyopentxs.py: the server provisioning workflow       *)
(* setup_server, the wallet enumeration functions get_nym_ids,             *)
(* get_account_ids, get_servers, get_assets, and the decode helper.        *)
(*                                                                         *)
(* The opentxs library is an opaque capability.  Its return values are     *)
(* drawn nondeterministically from small sets; the files it keeps under    *)
(* ~/.ot/client_data are part of the initial filesystem.                   *)
(***************************************************************************)
EXTENDS Naturals, Sequences, FiniteSets

VARIABLES
    \* ---- setup_server ----
    pc,               \* the statement of setup_server about to run
    failedAt,         \* the statement that raised, once pc = "failed"
    log,              \* history: the statements executed so far, in order
    fs,               \* the filesystem under config_dir
    fs0,              \* history: the filesystem when setup_server was called
    contract_stream,  \* the argument of setup_server
    local,            \* the local variables of setup_server
    opened,           \* the streams setup_server opens itself
    stdout,           \* what print() has written, in order
    registered,       \* arguments OTAPI_Wrap_AddServerContract has received
    ret,              \* the value setup_server returned
    \* ---- get_nym_ids, get_account_ids, get_servers, get_assets ----
    call,             \* which enumeration function is running
    coll,             \* the ids the capability reports for that collection
    i,                \* the loop index
    acc,              \* the list under construction
    epc,              \* "loop", "returned" or "raised"
    result,           \* the returned list
    raised,           \* the return_value carried by ReturnValueError
    \* ---- decode ----
    streams,          \* the streams a caller holds
    calls             \* history: one record per finished call of decode

setupVars == <<pc, failedAt, log, fs, fs0, contract_stream, local, opened,
               stdout, registered, ret>>
enumVars == <<call, coll, i, acc, epc, result, raised>>
decodeVars == <<streams, calls>>
vars == <<setupVars, enumVars, decodeVars>>

\* ---------------------------------------------------------------- bounds
MaxCount == 3     \* the largest count the capability reports
NStreams == 2     \* streams held by the caller of decode
MaxCalls == 3     \* calls of decode in one run

\* ---------------------------------------------------------------- values
NoValue == "<unset>"
Absent == "<absent>"

\* ---------------------------------------------------------------- streams
\* A file object: closed flag, number of read() calls made on it, content.
OpenStream(data) == [closed |-> FALSE, reads |-> 0, data |-> data]
ClosedStream(data) == [closed |-> TRUE, reads |-> 0, data |-> data]
NoStream == [closed |-> TRUE, reads |-> 0, data |-> Absent]

\* stream.read(): ValueError on a closed file, else the whole content.
StreamRead(s) ==
    [stream |-> [s EXCEPT !.reads = @ + 1],
     raised |-> s.closed,
     data   |-> IF s.closed THEN NoValue ELSE s.data]

\* stream.close(): idempotent.
StreamClose(s) == [s EXCEPT !.closed = TRUE]

\* opentxs.OTAPI_Wrap_Decode(text, True): the armored payload, "" if the
\* text is not armored.
OTAPI_Wrap_Decode(text) ==
    CASE text = "armor(wallet)"   -> "<wallet><cachedKey>KEY</cachedKey></wallet>"
      [] text = "armor(nokey)"    -> "<wallet/>"
      [] text = "armor(contract)" -> "<notaryProviderContract/>"
      [] OTHER                    -> ""

\* decode(stream) without the with-block: the stream is closed only when
\* nothing raised.
Decode_close_on_success(stream, capRaises) ==
    LET r == StreamRead(stream) IN
    IF r.raised \/ capRaises
    THEN [stream |-> r.stream, raised |-> TRUE, value |-> NoValue]
    ELSE [stream |-> StreamClose(r.stream), raised |-> FALSE,
          value |-> OTAPI_Wrap_Decode(r.data)]

\* decode(stream): with closing(stream): OTAPI_Wrap_Decode(stream.read(), True)
Decode(stream, capRaises) ==
    LET r == StreamRead(stream) IN
    IF r.raised \/ capRaises
    THEN [stream |-> StreamClose(r.stream), raised |-> TRUE, value |-> NoValue]
    ELSE [stream |-> StreamClose(r.stream), raised |-> FALSE,
          value |-> OTAPI_Wrap_Decode(r.data)]

\* ------------------------------------------------------------ filesystem
\* config_dir as setup_server sees it.  client_data and server_data are
\* directories; wallet_xml and contract_file hold a file's content or
\* Absent; client_creds and server_creds say how much of the credentials
\* subtree is there: Absent, "partial", "full" (the whole subtree of this
\* wallet) or "other" (a directory that was there before and is no copy).
FsStates ==
    { f \in [client_data   : BOOLEAN,
             wallet_xml    : {Absent, "armor(wallet)", "armor(nokey)", "junk"},
             contract_file : {Absent, "armor(contract)", "junk"},
             client_creds  : {Absent, "full"},
             server_data   : BOOLEAN,
             server_creds  : {Absent, "other"}] :
        /\ ~f.client_data =>
              f.wallet_xml = Absent /\ f.contract_file = Absent
              /\ f.client_creds = Absent
        /\ ~f.server_data => f.server_creds = Absent }

\* The local variables of setup_server before any assignment.
NoLocals ==
    [server_nym |-> NoValue, contract |-> NoValue, server_contract |-> NoValue,
     walletxml |-> NoValue, cached_key |-> NoValue,
     signed_contract |-> NoValue, decoded_signed_contract |-> NoValue]

NoOpened == [wallet |-> NoStream, f |-> NoStream, sio |-> NoStream]

\* BeautifulSoup(walletxml).wallet.cachedkey.string.strip(): the text of the
\* cachedKey element, NoValue when the attribute chain hits None.
CachedKey(xml) ==
    IF xml = "<wallet><cachedKey>KEY</cachedKey></wallet>" THEN "KEY" ELSE NoValue

\* An exception leaves setup_server: nothing catches it.
Raise(step) ==
    /\ pc' = "failed"
    /\ failedAt' = step
    /\ log' = Append(log, step)

\* A statement completes and control moves on.
Goto(step, next) ==
    /\ pc' = next
    /\ failedAt' = failedAt
    /\ log' = Append(log, step)

InitSetup ==
    /\ pc = "create_pseudonym"
    /\ failedAt = NoValue
    /\ log = <<>>
    /\ fs \in FsStates
    /\ fs0 = fs
    /\ contract_stream \in {OpenStream("contract template"),
                            ClosedStream("contract template")}
    /\ local = NoLocals
    /\ opened = NoOpened
    /\ stdout = <<>>
    /\ registered = <<>>
    /\ ret = NoValue

\* line 190: server_nym = create_pseudonym()
\* _otme.create_nym returns the id, or '' and ReturnValueError is raised.
CreatePseudonym ==
    /\ pc = "create_pseudonym"
    /\ \E retval \in {"", "NYM"} :
         IF retval = ""
         THEN Raise("create_pseudonym") /\ UNCHANGED local
         ELSE /\ Goto("create_pseudonym", "read_stream")
              /\ local' = [local EXCEPT !.server_nym = retval]
    /\ UNCHANGED <<enumVars, decodeVars,
                  fs, fs0, contract_stream, opened, stdout, registered, ret>>

\* lines 191-192: with closing(contract_stream): ... contract_stream.read()
\* A failing read leaves the with-block, which closes the stream.
ReadStream ==
    /\ pc = "read_stream"
    /\ LET r == StreamRead(contract_stream) IN
         IF r.raised
         THEN /\ Raise("read_stream")
              /\ contract_stream' = StreamClose(r.stream)
              /\ UNCHANGED local
         ELSE /\ Goto("read_stream", "add_server")
              /\ contract_stream' = r.stream
              /\ local' = [local EXCEPT !.contract = r.data]
    /\ UNCHANGED <<enumVars, decodeVars,
                  fs, fs0, opened, stdout, registered, ret>>

\* lines 192, 123-128: server_contract = add_server(server_nym, <text>)
\* assert(len(contract_id) > 0); the with-block then closes the stream.
AddServer ==
    /\ pc = "add_server"
    /\ \E contract_id \in {"", "CONTRACTID"} :
         IF contract_id = ""
         THEN Raise("add_server") /\ UNCHANGED local
         ELSE /\ Goto("add_server", "open_wallet")
              /\ local' = [local EXCEPT !.server_contract = contract_id]
    /\ contract_stream' = StreamClose(contract_stream)
    /\ UNCHANGED <<enumVars, decodeVars,
                  fs, fs0, opened, stdout, registered, ret>>

\* open(..., "a+") instead of open(...): a missing wallet.xml is created
\* empty instead of raising.
OpenWallet_create ==
    /\ pc = "open_wallet"
    /\ IF ~fs.client_data
       THEN Raise("open_wallet") /\ UNCHANGED <<opened, fs>>
       ELSE /\ Goto("open_wallet", "decode_wallet")
            /\ fs' = [fs EXCEPT !.wallet_xml = IF @ = Absent THEN "junk" ELSE @]
            /\ opened' = [opened EXCEPT !.wallet = OpenStream(fs'.wallet_xml)]
    /\ UNCHANGED <<enumVars, decodeVars,
                  fs0, contract_stream, local, stdout, registered, ret>>

\* line 193: open(config_dir + "client_data/wallet.xml")
OpenWallet ==
    /\ pc = "open_wallet"
    /\ IF fs.wallet_xml = Absent
       THEN Raise("open_wallet") /\ UNCHANGED opened
       ELSE /\ Goto("open_wallet", "decode_wallet")
            /\ opened' = [opened EXCEPT !.wallet = OpenStream(fs.wallet_xml)]
    /\ UNCHANGED <<enumVars, decodeVars,
                  fs, fs0, contract_stream, local, stdout, registered, ret>>

\* line 193: walletxml = decode(<the open file>)
DecodeWallet ==
    /\ pc = "decode_wallet"
    /\ \E capRaises \in BOOLEAN :
         LET d == Decode(opened.wallet, capRaises) IN
         /\ opened' = [opened EXCEPT !.wallet = d.stream]
         /\ IF d.raised
            THEN Raise("decode_wallet") /\ UNCHANGED local
            ELSE /\ Goto("decode_wallet", "cached_key")
                 /\ local' = [local EXCEPT !.walletxml = d.value]
    /\ UNCHANGED <<enumVars, decodeVars,
                  fs, fs0, contract_stream, stdout, registered, ret>>

\* line 194: cached_key = BeautifulSoup(walletxml).wallet.cachedkey.string.strip()
ParseCachedKey ==
    /\ pc = "cached_key"
    /\ LET k == CachedKey(local.walletxml) IN
         IF k = NoValue
         THEN Raise("cached_key") /\ UNCHANGED local
         ELSE /\ Goto("cached_key", "read_contract")
              /\ local' = [local EXCEPT !.cached_key = k]
    /\ UNCHANGED <<enumVars, decodeVars,
                  fs, fs0, contract_stream, opened, stdout, registered, ret>>

\* lines 195-197: with closing(open(signed_contract_file)) as f: f.read()
ReadContract ==
    /\ pc = "read_contract"
    /\ IF fs.contract_file = Absent
       THEN Raise("read_contract") /\ UNCHANGED <<opened, local>>
       ELSE LET r == StreamRead(OpenStream(fs.contract_file)) IN
            /\ Goto("read_contract", "decode_contract")
            /\ opened' = [opened EXCEPT !.f = StreamClose(r.stream)]
            /\ local' = [local EXCEPT !.signed_contract = r.data]
    /\ UNCHANGED <<enumVars, decodeVars,
                  fs, fs0, contract_stream, stdout, registered, ret>>

\* line 198: decoded_signed_contract = decode(io.StringIO(signed_contract))
DecodeContract ==
    /\ pc = "decode_contract"
    /\ \E capRaises \in BOOLEAN :
         LET d == Decode(OpenStream(local.signed_contract), capRaises) IN
         /\ opened' = [opened EXCEPT !.sio = d.stream]
         /\ IF d.raised
            THEN Raise("decode_contract") /\ UNCHANGED local
            ELSE /\ Goto("decode_contract", "makedir")
                 /\ local' = [local EXCEPT !.decoded_signed_contract = d.value]
    /\ UNCHANGED <<enumVars, decodeVars,
                  fs, fs0, contract_stream, stdout, registered, ret>>

\* ---------------------------------------------------------------- step 6
\* lines 201-203: if not os.path.exists(server_data_dir): os.mkdir(...)
Makedir ==
    /\ pc = "makedir"
    /\ IF fs.server_data
       THEN Goto("makedir", "copytree") /\ UNCHANGED fs
       ELSE \E ok \in BOOLEAN :
              IF ok
              THEN /\ Goto("makedir", "copytree")
                   /\ fs' = [fs EXCEPT !.server_data = TRUE]
              ELSE Raise("makedir") /\ UNCHANGED fs
    /\ UNCHANGED <<enumVars, decodeVars,
                  fs0, contract_stream, local, opened, stdout, registered, ret>>

\* A copy that does not descend into the subtree.
CopytreeDone_shallow(f) == [f EXCEPT !.server_creds = "partial"]

\* shutil.copytree returned: the destination holds the whole subtree.
CopytreeDone(f) == [f EXCEPT !.server_creds = f.client_creds]

\* line 204: shutil.copytree(client_data/credentials, server_data/credentials)
\* It raises with nothing written when the source is missing or the
\* destination exists, and may raise part-way through the copy.
Copytree ==
    /\ pc = "copytree"
    /\ IF fs.client_creds = Absent \/ fs.server_creds # Absent
       THEN Raise("copytree") /\ UNCHANGED fs
       ELSE \E ok \in BOOLEAN :
              IF ok
              THEN Goto("copytree", "rmtree") /\ fs' = CopytreeDone(fs)
              ELSE /\ Raise("copytree")
                   /\ fs' = [fs EXCEPT !.server_creds = "partial"]
    /\ UNCHANGED <<enumVars, decodeVars,
                  fs0, contract_stream, local, opened, stdout, registered, ret>>

\* A removal that leaves the directory in place.
RmtreeDone_keep(f) == f

\* shutil.rmtree returned: the whole client_data tree is gone.
RmtreeDone(f) ==
    [f EXCEPT !.client_data = FALSE, !.wallet_xml = Absent,
              !.contract_file = Absent, !.client_creds = Absent]

\* line 206: shutil.rmtree(config_dir + "client_data")
\* When it raises, client_data is still there with any part of its content.
Rmtree ==
    /\ pc = "rmtree"
    /\ \/ Goto("rmtree", "print_server_contract") /\ fs' = RmtreeDone(fs)
       \/ /\ Raise("rmtree")
          /\ \E w \in {fs.wallet_xml, Absent}, c \in {fs.contract_file, Absent},
                k \in {fs.client_creds, "partial", Absent} :
               fs' = [fs EXCEPT !.wallet_xml = w, !.contract_file = c,
                                !.client_creds = k]
    /\ UNCHANGED <<enumVars, decodeVars,
                  fs0, contract_stream, local, opened, stdout, registered, ret>>

\* ---------------------------------------------------------------- step 7
\* print(text): the text reaches stdout, or the write raises.
PrintStmt(step, next, text) ==
    /\ pc = step
    /\ \E ok \in BOOLEAN :
         IF ok
         THEN Goto(step, next) /\ stdout' = Append(stdout, text)
         ELSE Raise(step) /\ UNCHANGED stdout
    /\ UNCHANGED <<enumVars, decodeVars,
                  fs, fs0, contract_stream, local, opened, registered, ret>>

\* line 211: print(server_contract)
PrintServerContract ==
    PrintStmt("print_server_contract", "print_server_nym", local.server_contract)

\* line 212: print(server_nym)
PrintServerNym ==
    PrintStmt("print_server_nym", "print_cached_key", local.server_nym)

\* line 213: print(cached_key + "\n~")
PrintCachedKey ==
    PrintStmt("print_cached_key", "print_decoded", local.cached_key \o "\n~")

\* line 214: print(decoded_signed_contract + "\n~")
PrintDecoded ==
    PrintStmt("print_decoded", "add_server_contract",
          local.decoded_signed_contract \o "\n~")

\* ---------------------------------------------------------------- step 8
\* A cleanup handler that removes server_data when the registration fails.
AddServerContract_cleanup ==
    /\ pc = "add_server_contract"
    /\ \E ok \in BOOLEAN :
         IF ok
         THEN /\ Goto("add_server_contract", "return")
              /\ registered' = Append(registered, local.decoded_signed_contract)
              /\ UNCHANGED fs
         ELSE /\ Raise("add_server_contract")
              /\ fs' = [fs EXCEPT !.server_data = FALSE, !.server_creds = Absent]
              /\ UNCHANGED registered
    /\ UNCHANGED <<enumVars, decodeVars,
                  fs0, contract_stream, local, opened, stdout, ret>>

\* A try/except around the registration that records the failure and goes on.
AddServerContract_swallow ==
    /\ pc = "add_server_contract"
    /\ \E ok \in BOOLEAN :
         /\ pc' = "return"
         /\ log' = Append(log, "add_server_contract")
         /\ IF ok
            THEN /\ registered' =
                      Append(registered, local.decoded_signed_contract)
                 /\ UNCHANGED failedAt
            ELSE failedAt' = "add_server_contract" /\ UNCHANGED registered
    /\ UNCHANGED <<enumVars, decodeVars,
                  fs, fs0, contract_stream, local, opened, stdout, ret>>

\* line 220: opentxs.OTAPI_Wrap_AddServerContract(decoded_signed_contract)
\* Its return value is ignored; the call itself may raise.
AddServerContract ==
    /\ pc = "add_server_contract"
    /\ \E ok \in BOOLEAN :
         IF ok
         THEN /\ Goto("add_server_contract", "return")
              /\ registered' = Append(registered, local.decoded_signed_contract)
         ELSE Raise("add_server_contract") /\ UNCHANGED registered
    /\ UNCHANGED <<enumVars, decodeVars,
                  fs, fs0, contract_stream, local, opened, stdout, ret>>

\* ---------------------------------------------------------------- step 9
\* Returning the file's text instead of the decoded text.
Return_undecoded ==
    /\ pc = "return"
    /\ Goto("return", "returned")
    /\ ret' = local.signed_contract
    /\ UNCHANGED <<enumVars, decodeVars,
                  fs, fs0, contract_stream, local, opened, stdout, registered>>

\* line 222: return decoded_signed_contract
Return ==
    /\ pc = "return"
    /\ Goto("return", "returned")
    /\ ret' = local.decoded_signed_contract
    /\ UNCHANGED <<enumVars, decodeVars,
                  fs, fs0, contract_stream, local, opened, stdout, registered>>

\* ------------------------------------------------- idle states of the rest
IdleEnum ==
    /\ call = NoValue /\ coll = <<>> /\ i = 0 /\ acc = <<>>
    /\ epc = "idle" /\ result = <<>> /\ raised = NoValue

IdleDecode == streams = <<>> /\ calls = <<>>

IdleSetup ==
    /\ pc = "idle" /\ failedAt = NoValue /\ log = <<>>
    /\ fs = [client_data |-> FALSE, wallet_xml |-> Absent,
             contract_file |-> Absent, client_creds |-> Absent,
             server_data |-> FALSE, server_creds |-> Absent]
    /\ fs0 = fs
    /\ contract_stream = NoStream /\ local = NoLocals /\ opened = NoOpened
    /\ stdout = <<>> /\ registered = <<>> /\ ret = NoValue

\* ------------------------------------------------------------ setup_server
Init == InitSetup /\ IdleEnum /\ IdleDecode

Next ==
    \/ CreatePseudonym
    \/ ReadStream
    \/ AddServer
    \/ OpenWallet
    \/ DecodeWallet
    \/ ParseCachedKey
    \/ ReadContract
    \/ DecodeContract
    \/ Makedir
    \/ Copytree
    \/ Rmtree
    \/ PrintServerContract
    \/ PrintServerNym
    \/ PrintCachedKey
    \/ PrintDecoded
    \/ AddServerContract
    \/ Return

Spec == Init /\ [][Next]_vars

\* ------------------------------------------------- wallet enumeration
\* The ids a capability can report; '' is its error sentinel.
Ids == {"", "A", "B"}

Colls == UNION { [1..n -> Ids] : n \in 0..MaxCount }

EnumCalls == {"get_nym_ids", "get_account_ids", "get_servers", "get_assets"}

\* OTAPI_Wrap_GetNymCount / GetAccountCount / GetServerCount / GetAssetTypeCount
GetCount == Len(coll)

\* OTAPI_Wrap_GetNym_ID(k) / GetAccountWallet_ID(k) / GetServer_ID(k) /
\* GetAssetType_ID(k), k counted from 0 as range() does.
GetID(k) == coll[k + 1]

\* OTAPI_Wrap_GetServer_Name(id) / GetAssetType_Name(id)
GetName(id) == IF id = "" THEN "" ELSE "name of " \o id

InitEnum ==
    /\ call \in EnumCalls
    /\ coll \in Colls
    /\ i = 0
    /\ acc = <<>>
    /\ epc = "loop"
    /\ result = <<>>
    /\ raised = NoValue

\* The loop body without the test for ''.
NymIter_unchecked ==
    /\ call = "get_nym_ids" /\ epc = "loop" /\ i < GetCount
    /\ acc' = Append(acc, GetID(i)) /\ i' = i + 1
    /\ UNCHANGED <<setupVars, decodeVars, call, coll, epc, result, raised>>

\* lines 142-147: one iteration of the loop of get_nym_ids
NymIter ==
    /\ call = "get_nym_ids" /\ epc = "loop" /\ i < GetCount
    /\ LET retval == GetID(i) IN
         IF retval = ""
         THEN epc' = "raised" /\ raised' = retval /\ UNCHANGED <<i, acc>>
         ELSE acc' = Append(acc, retval) /\ i' = i + 1
              /\ UNCHANGED <<epc, raised>>
    /\ UNCHANGED <<setupVars, decodeVars, call, coll, result>>

\* line 149: return nym_ids
NymReturn ==
    /\ call = "get_nym_ids" /\ epc = "loop" /\ i = GetCount
    /\ result' = acc /\ epc' = "returned"
    /\ UNCHANGED <<setupVars, decodeVars, call, coll, i, acc, raised>>

\* lines 173-175: one iteration of the loop of get_account_ids
AccountIter ==
    /\ call = "get_account_ids" /\ epc = "loop" /\ i < GetCount
    /\ LET account_id == GetID(i) IN acc' = Append(acc, account_id)
    /\ i' = i + 1
    /\ UNCHANGED <<setupVars, decodeVars, call, coll, epc, result, raised>>

\* line 177: return accounts
AccountReturn ==
    /\ call = "get_account_ids" /\ epc = "loop" /\ i = GetCount
    /\ result' = acc /\ epc' = "returned"
    /\ UNCHANGED <<setupVars, decodeVars, call, coll, i, acc, raised>>

\* lines 228-231: one iteration of the loop of get_servers
ServerIter ==
    /\ call = "get_servers" /\ epc = "loop" /\ i < GetCount
    /\ LET server_id == GetID(i)
           server_name == GetName(server_id)
       IN acc' = Append(acc, <<server_id, server_name>>)
    /\ i' = i + 1
    /\ UNCHANGED <<setupVars, decodeVars, call, coll, epc, result, raised>>

\* line 233: return servers
ServerReturn ==
    /\ call = "get_servers" /\ epc = "loop" /\ i = GetCount
    /\ result' = acc /\ epc' = "returned"
    /\ UNCHANGED <<setupVars, decodeVars, call, coll, i, acc, raised>>

\* lines 242-245: one iteration of the loop of get_assets
AssetIter ==
    /\ call = "get_assets" /\ epc = "loop" /\ i < GetCount
    /\ LET asset_id == GetID(i)
           asset_name == GetName(asset_id)
       IN acc' = Append(acc, <<asset_id, asset_name>>)
    /\ i' = i + 1
    /\ UNCHANGED <<setupVars, decodeVars, call, coll, epc, result, raised>>

\* line 247: return assets
AssetReturn ==
    /\ call = "get_assets" /\ epc = "loop" /\ i = GetCount
    /\ result' = acc /\ epc' = "returned"
    /\ UNCHANGED <<setupVars, decodeVars, call, coll, i, acc, raised>>

EnumInit == InitEnum /\ IdleSetup /\ IdleDecode

EnumNext ==
    \/ NymIter
    \/ NymReturn
    \/ AccountIter
    \/ AccountReturn
    \/ ServerIter
    \/ ServerReturn
    \/ AssetIter
    \/ AssetReturn

SpecEnum == EnumInit /\ [][EnumNext]_vars

\* ------------------------------------------------------------------ decode
\* What a stream handed to decode may hold.
StreamData == {"armor(contract)", "junk"}

InitDecode ==
    /\ streams \in [1..NStreams ->
                      {OpenStream(d) : d \in StreamData}
                        \cup {ClosedStream(d) : d \in StreamData}]
    /\ calls = <<>>

\* lines 66-70: one call decode(streams[s]); the capability raises or not.
DecodeCall ==
    /\ Len(calls) < MaxCalls
    /\ \E s \in 1..NStreams, capRaises \in BOOLEAN :
         LET d == Decode(streams[s], capRaises) IN
         /\ streams' = [streams EXCEPT ![s] = d.stream]
         /\ calls' = Append(calls, [stream |-> s, before |-> streams[s],
                                    after |-> d.stream, raised |-> d.raised,
                                    value |-> d.value])
    /\ UNCHANGED <<setupVars, enumVars>>

DecodeInit == InitDecode /\ IdleSetup /\ IdleEnum

DecodeNext == DecodeCall

SpecDecode == DecodeInit /\ [][DecodeNext]_vars

\* ================================================================ claims
\* The statements of setup_server that run once wallet.xml has been opened.
AfterOpenWallet ==
    {"decode_wallet", "cached_key", "read_contract", "decode_contract",
     "makedir", "copytree", "rmtree", "print_server_contract",
     "print_server_nym", "print_cached_key", "print_decoded",
     "add_server_contract", "return", "returned"}

\* C1: when setup_server is called with client_data/wallet.xml missing, the
\* filesystem is in every state of the run what it was at the call (nothing
\* of client_data changed, server_data not created, no credentials copied),
\* the run gets no further than opening wallet.xml, and it ends in a failure
\* raised there or earlier.
C1_AbortBeforeMutation ==
    fs0.wallet_xml = Absent =>
        /\ fs = fs0
        /\ pc \notin AfterOpenWallet
        /\ failedAt \in {NoValue, "create_pseudonym", "read_stream",
                         "add_server", "open_wallet"}

\* C1 witness: the run failed opening the missing wallet.xml of a client_data
\* directory that holds credentials.
C1_Witness ==
    /\ pc = "failed" /\ failedAt = "open_wallet"
    /\ fs0.client_data /\ fs0.wallet_xml = Absent /\ fs0.client_creds = "full"
    /\ fs.client_creds = "full" /\ ~fs.server_data

\* C2: when setup_server has returned, stdout holds exactly the server
\* contract id, the nym id, the cached key and the decoded signed contract,
\* in that order; client_data is gone; server_data/credentials holds the
\* whole subtree; and the returned value is the decoded signed contract
\* that was printed last and handed to OTAPI_Wrap_AddServerContract.
C2_SuccessPostcondition ==
    pc = "returned" =>
        /\ stdout = <<"CONTRACTID", "NYM", "KEY\n~", ret \o "\n~">>
        /\ ret = OTAPI_Wrap_Decode(fs0.contract_file)
        /\ registered = <<ret>>
        /\ ~fs.client_data
        /\ fs.server_data /\ fs.server_creds = "full"

\* C2 witness: a run over a well-formed wallet returned its decoded contract.
C2_Witness ==
    /\ pc = "returned" /\ ret = "<notaryProviderContract/>"
    /\ Len(stdout) = 4 /\ ~fs.client_data

\* C3 as stated, on the runs the workflow's precondition admits (client_data
\* present and no server_data at the call): exactly one of client_data and
\* server_data exists in every state during and after setup_server.
C3_ExactlyOneRoleDir ==
    (fs0.client_data /\ ~fs0.server_data) => (fs.client_data # fs.server_data)

\* Step 6 has created server_data / has removed client_data.
ServerDataMade ==
    \E k \in 1..Len(log) : log[k] = "makedir" /\ failedAt # "makedir"
ClientDataRemoved ==
    \E k \in 1..Len(log) : log[k] = "rmtree" /\ failedAt # "rmtree"

\* C3 amended: in a run that starts with client_data present and
\* server_data absent, only client_data exists until step 6 creates
\* server_data, both exist from then until the removal of client_data has
\* completed, and only server_data exists from then on.
C3_RoleTransition ==
    (fs0.client_data /\ ~fs0.server_data) =>
        /\ ~ServerDataMade => (fs.client_data /\ ~fs.server_data)
        /\ (ServerDataMade /\ ~ClientDataRemoved) =>
               (fs.client_data /\ fs.server_data)
        /\ ClientDataRemoved => (~fs.client_data /\ fs.server_data)
        /\ pc = "returned" => ClientDataRemoved

\* C3 witness: between the copy and the removal both directories exist.
C3_Witness ==
    /\ fs0.client_data /\ ~fs0.server_data
    /\ pc = "rmtree" /\ fs.client_data /\ fs.server_data

\* C4: whenever setup_server has terminated, by return or by a failure at
\* any statement, contract_stream is closed and read() was called on it at
\* most once.
C4_StreamReleased ==
    pc \in {"returned", "failed"} =>
        contract_stream.closed /\ contract_stream.reads <= 1

\* The order in which the claim says the statements of setup_server run.
StepOrder ==
    <<"create_pseudonym", "read_stream", "add_server",
      "open_wallet", "decode_wallet", "cached_key",
      "read_contract", "decode_contract",
      "makedir", "copytree", "rmtree",
      "print_server_contract", "print_server_nym", "print_cached_key",
      "print_decoded",
      "add_server_contract", "return">>

\* C5: the statements executed so far are an initial part of the fixed
\* order (none skipped, none repeated, none out of place); the statement
\* about to run is the next one of that order; a return has run all of
\* them; and once a statement has failed it is the last one executed.
C5_StepOrder ==
    /\ Len(log) <= Len(StepOrder)
    /\ \A k \in 1..Len(log) : log[k] = StepOrder[k]
    /\ pc = "returned" => (log = StepOrder /\ failedAt = NoValue)
    /\ pc \notin {"returned", "failed"} =>
           (Len(log) < Len(StepOrder) /\ pc = StepOrder[Len(log) + 1])
    /\ (pc = "failed" \/ failedAt # NoValue) =>
           (pc = "failed" /\ Len(log) >= 1 /\ log[Len(log)] = failedAt)

\* C5 witness: the removal of client_data failed after ten statements ran.
C5_Witness ==
    pc = "failed" /\ failedAt = "rmtree" /\ Len(log) = 11

\* The filesystem step 6 leaves when it completes.
AfterStep6 ==
    [client_data |-> FALSE, wallet_xml |-> Absent, contract_file |-> Absent,
     client_creds |-> Absent, server_data |-> TRUE, server_creds |-> "full"]

\* The statements of steps 7 and 8, and where control is after step 6.
Steps78 ==
    {"print_server_contract", "print_server_nym", "print_cached_key",
     "print_decoded", "add_server_contract"}

\* C9: a failure of step 7 or 8 leaves the filesystem as step 6 produced
\* it, client_data deleted and server_data/credentials whole, and no
\* statement from step 7 on changes the filesystem.
C9_NoRollback ==
    /\ []((pc = "failed" /\ failedAt \in Steps78) => fs = AfterStep6)
    /\ [][(pc \in (Steps78 \cup {"return"})) =>
              (fs = AfterStep6 /\ fs' = fs)]_vars

\* C9 witness: the registration of step 8 failed after the role transition.
C9_Witness ==
    /\ pc = "failed" /\ failedAt = "add_server_contract"
    /\ ~fs.client_data /\ fs.server_creds = "full"

\* C10: when the wallet holds credentials at the call, they exist in full
\* under client_data or under server_data in every state; client_data is
\* gone only when server_data/credentials holds the whole subtree; and a
\* failed copy leaves client_data as it was at the call.
C10_CredentialsNeverLost ==
    /\ fs0.client_creds = "full" =>
           (fs.client_creds = "full" \/ fs.server_creds = "full")
    /\ (fs0.client_data /\ ~fs.client_data) => fs.server_creds = "full"
    /\ failedAt = "copytree" =>
           /\ fs.client_data
           /\ fs.wallet_xml = fs0.wallet_xml
           /\ fs.contract_file = fs0.contract_file
           /\ fs.client_creds = fs0.client_creds

\* C10 witness: the copy failed because server_data/credentials was there.
C10_Witness ==
    /\ pc = "failed" /\ failedAt = "copytree"
    /\ fs0.server_creds = "other" /\ fs0.client_creds = "full"
    /\ fs.client_creds = "full"

\* C6: get_nym_ids returns the capability's ids in order, as many as the
\* reported count and none empty, or raises ReturnValueError('') at the
\* first empty id and returns nothing; get_account_ids never raises and
\* returns the capability's ids as they are, empty ones in place.
C6_NymsVersusAccounts ==
    /\ (call = "get_nym_ids" /\ epc = "returned") =>
           /\ Len(result) = GetCount
           /\ \A k \in 1..Len(result) : result[k] = GetID(k - 1) /\ result[k] # ""
    /\ (call = "get_nym_ids" /\ epc = "raised") =>
           /\ raised = ""
           /\ i < GetCount /\ GetID(i) = ""
           /\ \A k \in 1..i : GetID(k - 1) # ""
           /\ result = <<>>
    /\ call = "get_account_ids" =>
           /\ epc # "raised"
           /\ epc = "returned" =>
                  /\ Len(result) = GetCount
                  /\ \A k \in 1..Len(result) : result[k] = GetID(k - 1)

\* C6 witness: get_nym_ids raised at its second id, after a good first one.
C6_Witness ==
    call = "get_nym_ids" /\ epc = "raised" /\ i = 1 /\ Len(acc) = 1

\* C7: whenever get_servers or get_assets has returned, the list is as long
\* as the reported count, in the capability's order, with no empty id.
C7_ServerAssetIdsNonEmpty ==
    (call \in {"get_servers", "get_assets"} /\ epc = "returned") =>
        /\ Len(result) = GetCount
        /\ \A k \in 1..Len(result) :
               result[k][1] = GetID(k - 1) /\ result[k][1] # ""

\* C8: every call of decode calls read() on its stream once and ends with
\* the stream closed, whether or not it raised; a call on a closed stream
\* raises and yields no payload; a call that did not raise yields the
\* decoded content; and a stream once passed to decode stays closed.
C8_DecodeLifecycle ==
    \A k \in 1..Len(calls) :
        LET c == calls[k] IN
        /\ c.after.closed
        /\ c.after.reads = c.before.reads + 1
        /\ c.before.closed => (c.raised /\ c.value = NoValue)
        /\ ~c.raised => c.value = OTAPI_Wrap_Decode(c.before.data)
        /\ streams[c.stream].closed

\* C8 witness: decode succeeded on an open stream, then failed on it.
C8_Witness ==
    /\ Len(calls) >= 2
    /\ calls[1].stream = calls[2].stream
    /\ ~calls[1].before.closed /\ ~calls[1].raised
    /\ calls[2].before.closed /\ calls[2].raised

====
